---- MODULE Spec2Model ----
(***************************************************************************)
(* Model of the Socket.IO / Mongoose messenger server of src/server.js     *)
(* (lines 125-660): the connection lifecycle, the presence fields of the   *)
(* User collection, the send_message pipeline with its delayed status      *)
(* update, and the typing / call relays.                                   *)
(*                                                                         *)
(* Every `await` of a handler is a point where other handlers may run, so  *)
(* a handler is one action per database operation it awaits: the action    *)
(* performs the operation and the synchronous code that follows it up to   *)
(* the next await.                                                         *)
(***************************************************************************)
EXTENDS Integers, Sequences, FiniteSets, TLC

\* ---------------------------------------------------------------- bounds
MaxSockets == 3      \* socket ids available
\* Each specification explores runs of a bounded number of connections,
\* send_message events and signals (typing, call and mark_read events).
ConnSockets == 3     \* SpecConn: connections accepted during a run
MsgSockets  == 2     \* SpecMsg: connections accepted during a run
MsgSends    == 1     \* SpecMsg: send_message events received during a run
FanSockets  == 3     \* SpecFan: connections accepted during a run
FanSends    == 1     \* SpecFan: send_message events received during a run
CallSockets == 2     \* SpecCall: connections accepted during a run
CallSignals == 3     \* SpecCall: call events received during a run
TypeSockets == 2     \* SpecType: connections accepted during a run
TypeSignals == 3     \* SpecType: typing events received during a run
ReadSockets == 2     \* SpecRead: connections accepted during a run
ReadSends   == 1     \* SpecRead: send_message events received during a run
ReadSignals == 1     \* SpecRead: mark_read events received during a run
OrderSockets == 2    \* SpecOrder: connections accepted during a run
OrderSends  == 2     \* SpecOrder: send_message events received during a run
JoinSockets == 2     \* SpecJoin: connections accepted during a run
JoinSends   == 1     \* SpecJoin: send_message events received during a run
JoinCreates == 1     \* SpecJoin: POST /api/chats requests received during a run
CreateRequests == 2  \* SpecCreate: POST /api/chats requests received during a run
MemSockets  == 2     \* SpecMem: connections accepted during a run
MemEvents   == 3     \* SpecMem: client events received during a run
AuthSockets == 3     \* SpecAuth: handshakes received during a run
AuthSignals == 1     \* SpecAuth: typing events received during a run

\* ------------------------------------------------------- database content
Users == {"u1", "u2", "u3"}

\* The chats stored in the Chat collection and their participants; "cX" is
\* a well-formed chat id that names no stored chat.
ChatIds == {"cA", "cB", "cX"}

InitChats ==
    [c \in {"cA", "cB"} |->
        [participants |-> IF c = "cA" THEN {"u1", "u2", "u3"} ELSE {"u1", "u2"},
         isGroup      |-> (c = "cA"),
         lastMessage  |-> [text |-> 0, sender |-> "none"]]]

\* The ids the database allots to chats created during a run, in order.
FreshChatIds == <<"cX", "cY">>

Sockets == 1..MaxSockets

\* In-memory server: the socket ids, the emails and passwords clients use,
\* the chat ids and recipient ids of sendMessage events.
MemSocketIds == 1..MemSockets
MemEmails == {"test@example.com", "alice@example.com", "bob@example.com", "carol@example.com"}
MemPasswords == {"password", "123456"}
MemChatIds == {"chat1"}
MemUserIds == {"user1", "user2", "user3", "user9"}

\* users.set('test@example.com', ...); users.set('alice@example.com', ...):
\* the seeded users have no socketId (0).
SeedUsers ==
    << [id |-> "user1", email |-> "test@example.com", password |-> "password",
        online |-> FALSE, socketId |-> 0],
       [id |-> "user2", email |-> "alice@example.com", password |-> "123456",
        online |-> FALSE, socketId |-> 0] >>

VARIABLES
    users,      \* User collection: online, socketId (0 = unset/null), lastSeen
    chats,      \* Chat collection: chat id -> participants, lastMessage
    messages,   \* Message collection, in insertion order: chatId, sender, status
    sock,       \* server-side socket objects
    inbox,      \* per connection, the events the server delivered to its client
    sends,      \* the running and finished send_message handler invocations
    callLog,    \* per chat id, the call signals the server's handlers relayed
    nSends,     \* send_message events received so far
    nSignals,   \* typing / call / mark_read events received so far
    unanswered, \* inbound events that found no listener registered
    limit,      \* the run's budget of connections, sends, signals and chat requests (never changes)
    creates,    \* the running and finished POST /api/chats handler invocations
    memUsers,   \* in-memory server: the `users` Map, its entries in insertion order
    memMessages, \* in-memory server: the `messages` Map, chat id -> stored messages
    memSock,    \* in-memory server: per socket id "none", "open" or "closed"
    memInbox,   \* in-memory server: per socket, the events emitted to its client
    nMemEvents  \* in-memory server: client events received so far

\* The state of the in-memory server of lines 1-124, a program of its own.
memVars == <<memUsers, memMessages, memSock, memInbox, nMemEvents>>

vars == <<users, chats, messages, sock, inbox, sends, callLog, nSends, nSignals, unanswered, limit, creates, memVars>>

\* ------------------------------------------------------------- Socket.IO

\* The sockets a broadcast to room c reaches: the connected sockets that
\* joined c, without the emitting socket (socket.to(c).emit).
RoomTargets(c, s) ==
    {t \in Sockets : t # s /\ sock[t].open /\ c \in sock[t].rooms}

\* socket.broadcast.emit: every connected socket but the emitting one.
BroadcastTargets(s) ==
    {t \in Sockets : t # s /\ sock[t].open}

\* socket.emit: the packet is written only while the socket is connected.
SelfTarget(s) ==
    IF sock[s].open THEN {s} ELSE {}

Deliver(inb, targets, ev) ==
    [t \in Sockets |-> IF t \in targets THEN Append(inb[t], ev) ELSE inb[t]]

Event(type, chat, msg, from, status) ==
    [type |-> type, chat |-> chat, msg |-> msg, from |-> from, status |-> status]

\* ---------------------------------------------------------------- Init
InitState ==
    /\ users = [u \in Users |-> [online |-> FALSE, socketId |-> 0, lastSeen |-> 0]]
    /\ chats = InitChats
    /\ messages = << >>
    /\ sock = [s \in Sockets |->
                 [user |-> "none", pc |-> "none", open |-> FALSE, rooms |-> {}, disc |-> "idle"]]
    /\ inbox = [s \in Sockets |-> << >>]
    /\ sends = << >>
    /\ callLog = [c \in ChatIds |-> << >>]
    /\ nSends = 0
    /\ nSignals = 0
    /\ unanswered = 0
    /\ creates = << >>
    /\ memUsers = SeedUsers
    /\ memMessages = [c \in MemChatIds |-> << >>]
    /\ memSock = [s \in MemSocketIds |-> "none"]
    /\ memInbox = [s \in MemSocketIds |-> << >>]
    /\ nMemEvents = 0

Limit(sockets, nsends, nsignals) ==
    [sockets |-> sockets, sends |-> nsends, signals |-> nsignals, creates |-> 0]

Init ==
    /\ InitState
    /\ limit = [Limit(MaxSockets, MsgSends, CallSignals) EXCEPT !.creates = JoinCreates]

\* ------------------------------------------------- connection lifecycle

\* The next socket id: connections are numbered in the order they arrive.
NextSocket ==
    IF \E s \in Sockets : sock[s].pc = "none"
    THEN CHOOSE s \in Sockets : sock[s].pc = "none" /\ \A t \in Sockets : sock[t].pc = "none" => s <= t
    ELSE 0

\* io.use(socketAuth) accepted the token of user u and io.on('connection')
\* starts: it issues User.findByIdAndUpdate and suspends.
Connect(u) ==
    /\ NextSocket # 0
    /\ NextSocket <= limit.sockets
    /\ sock' = [sock EXCEPT ![NextSocket] =
                  [user |-> u, pc |-> "connected", open |-> TRUE, rooms |-> {}, disc |-> "idle"]]
    /\ UNCHANGED <<users, chats, messages, inbox, sends, callLog, nSends, nSignals, unanswered, limit, creates, memVars>>

\* The user ids a handshake token may carry: those of the stored users and
\* one that no User document has.
UserIds == Users \cup {"u9"}

\* The tokens a client may present in socket.handshake.auth: signed with
\* JWT_SECRET and unexpired, or not; naming a user id.
Tokens == [signed : BOOLEAN, userId : UserIds]

\* The middleware without its lookup of the user.
SocketAuthVerifyOnly(tok) ==
    tok.signed

\* socketAuth calls next() without an error: jwt.verify does not throw and
\* User.findById(decoded.userId) finds the user.
SocketAuth(tok) ==
    tok.signed /\ tok.userId \in Users

\* next(new Error(...)): Socket.IO answers the handshake with a connect
\* error and drops the socket it had allotted; 'connection' is not emitted.
Reject ==
    /\ NextSocket # 0
    /\ NextSocket <= limit.sockets
    /\ sock' = [sock EXCEPT ![NextSocket] =
                  [user |-> "none", pc |-> "rejected", open |-> FALSE, rooms |-> {}, disc |-> "idle"]]
    /\ UNCHANGED <<users, chats, messages, inbox, sends, callLog, nSends, nSignals, unanswered, limit, creates, memVars>>

\* A client opens a connection presenting token tok: io.use(socketAuth)
\* runs, and the connection handler starts only if it lets the socket pass.
Handshake(tok) ==
    IF SocketAuth(tok) THEN Connect(tok.userId) ELSE Reject

\* The write of findByIdAndUpdate(socket.userId, {online: true, socketId}).
SetOnline(u, s) ==
    [users EXCEPT ![u] = [@ EXCEPT !.online = TRUE, !.socketId = s]]

\* The presence update is applied; the handler goes on to Chat.find.
ConnSetOnline(s) ==
    /\ sock[s].pc = "connected"
    /\ users' = SetOnline(sock[s].user, s)
    /\ sock' = [sock EXCEPT ![s].pc = "online"]
    /\ UNCHANGED <<chats, messages, inbox, sends, callLog, nSends, nSignals, unanswered, limit, creates, memVars>>

\* Chat.find({participants: socket.userId})
UserChats(u) ==
    {c \in DOMAIN chats : u \in chats[c].participants}

\* Chat.find returns: the socket joins one room per chat and the event
\* listeners (send_message ... disconnect) are registered.
ConnJoinRooms(s) ==
    /\ sock[s].pc = "online"
    /\ sock' = [sock EXCEPT ![s].pc = "ready",
                            ![s].rooms = UserChats(sock[s].user)]
    /\ UNCHANGED <<users, chats, messages, inbox, sends, callLog, nSends, nSignals, unanswered, limit, creates, memVars>>

\* The transport of socket s closes. Socket.IO takes the socket out of its
\* rooms and emits 'disconnect', which runs the listener of lines 634-648
\* only if the connection handler has registered it already.
Disconnect(s) ==
    /\ sock[s].open
    /\ sock' = [sock EXCEPT ![s].open = FALSE,
                            ![s].rooms = {},
                            ![s].disc = IF sock[s].pc = "ready" THEN "pending" ELSE "idle"]
    /\ UNCHANGED <<users, chats, messages, inbox, sends, callLog, nSends, nSignals, unanswered, limit, creates, memVars>>

\* The write of findByIdAndUpdate(socket.userId, {online: false, lastSeen, socketId: null});
\* lastSeen records which connection's disconnect stamped it.
SetOffline(u, s) ==
    [users EXCEPT ![u] = [online |-> FALSE, socketId |-> 0, lastSeen |-> s]]

\* The disconnect listener's update is applied and user_offline is broadcast.
DiscUpdate(s) ==
    /\ sock[s].disc = "pending"
    /\ users' = SetOffline(sock[s].user, s)
    /\ inbox' = Deliver(inbox, BroadcastTargets(s),
                        Event("user_offline", "none", 0, sock[s].user, "none"))
    /\ sock' = [sock EXCEPT ![s].disc = "done"]
    /\ UNCHANGED <<chats, messages, sends, callLog, nSends, nSignals, unanswered, limit, creates, memVars>>

\* POST /api/login with valid credentials: user.online = true; user.save().
LoginOnline(u) ==
    [users EXCEPT ![u].online = TRUE]

HttpLogin(u) ==
    /\ users' = LoginOnline(u)
    /\ users' # users
    /\ UNCHANGED <<chats, messages, sock, inbox, sends, callLog, nSends, nSignals, unanswered, limit, creates, memVars>>

\* ------------------------------------------------------ POST /api/chats

\* A POST /api/chats handler invocation of authenticated user u: the
\* participant set of the chat asked for, whether it is a group, where the
\* handler is suspended and the chat it answered with.
NewCreate(u, others, isGroup) ==
    [user |-> u, participants |-> {u} \cup others, isGroup |-> isGroup,
     pc |-> IF isGroup THEN "save" ELSE "find", chat |-> "none"]

\* The request arrives: a group request goes to chat.save(), a private one
\* to Chat.findOne.
CreateChat(u, others, isGroup) ==
    /\ Len(creates) < limit.creates
    /\ others # {}
    /\ u \notin others
    /\ ~isGroup => Cardinality(others) = 1
    /\ creates' = Append(creates, NewCreate(u, others, isGroup))
    /\ UNCHANGED <<users, chats, messages, sock, inbox, sends, callLog, nSends, nSignals, unanswered, limit, memVars>>

\* Chat.findOne({participants: {$all: [a, b], $size: 2}, isGroup: false})
FindPrivate(parts) ==
    {c \in DOMAIN chats : chats[c].participants = parts /\ ~chats[c].isGroup}

\* Chat.findOne returns (or throws): an existing private chat is the answer,
\* otherwise the handler goes on to create one.
CreateFind(i, fail) ==
    /\ creates[i].pc = "find"
    /\ creates' = [creates EXCEPT ![i] =
          IF fail THEN [@ EXCEPT !.pc = "error"]
          ELSE IF FindPrivate(creates[i].participants) # {}
          THEN [@ EXCEPT !.pc = "done",
                         !.chat = CHOOSE c \in FindPrivate(creates[i].participants) : TRUE]
          ELSE [@ EXCEPT !.pc = "save"]]
    /\ UNCHANGED <<users, chats, messages, sock, inbox, sends, callLog, nSends, nSignals, unanswered, limit, memVars>>

\* new Chat({participants, isGroup}): lastMessage is empty.
NewChat(parts, isGroup) ==
    [participants |-> parts, isGroup |-> isGroup, lastMessage |-> [text |-> 0, sender |-> "none"]]

\* The _id of the next chat document ("none": the run allots no more).
NextChatId ==
    IF \E k \in DOMAIN FreshChatIds : FreshChatIds[k] \notin DOMAIN chats
    THEN FreshChatIds[CHOOSE k \in DOMAIN FreshChatIds :
                        /\ FreshChatIds[k] \notin DOMAIN chats
                        /\ \A j \in 1..(k - 1) : FreshChatIds[j] \in DOMAIN chats]
    ELSE "none"

\* chat.save() inserts the chat under a fresh id (or throws); the handler
\* answers with the chat. No socket is touched.
CreateSave(i, fail) ==
    /\ creates[i].pc = "save"
    /\ IF fail
       THEN /\ creates' = [creates EXCEPT ![i].pc = "error"]
            /\ UNCHANGED chats
       ELSE /\ NextChatId # "none"
            /\ chats' = [d \in DOMAIN chats \cup {NextChatId} |->
                           IF d = NextChatId
                           THEN NewChat(creates[i].participants, creates[i].isGroup)
                           ELSE chats[d]]
            /\ creates' = [creates EXCEPT ![i].pc = "done", ![i].chat = NextChatId]
    /\ UNCHANGED <<users, messages, sock, inbox, sends, callLog, nSends, nSignals, unanswered, limit, memVars>>

\* ------------------------------------------------ send_message pipeline

\* A send_message handler invocation: the socket it runs on, the chat id of
\* the event, where it is suspended (pc), the message it saved (0: none yet)
\* and how many success / error acknowledgments it emitted to its socket.
NewSend(s, c) ==
    [sock |-> s, chat |-> c, pc |-> "lookup", msg |-> 0, ok |-> 0, err |-> 0]

\* A send_message event arrives on connection s. Before the connection
\* handler has registered its listeners the event finds none and is lost.
SendMessage(s, c) ==
    /\ sock[s].open
    /\ nSends < limit.sends
    /\ nSends' = nSends + 1
    /\ IF sock[s].pc = "ready"
       THEN /\ sends' = Append(sends, NewSend(s, c))
            /\ UNCHANGED unanswered
       ELSE /\ unanswered' = unanswered + 1
            /\ UNCHANGED sends
    /\ UNCHANGED <<users, chats, messages, sock, inbox, callLog, nSignals, limit, creates, memVars>>

\* catch (error): socket.emit('error', {message: 'Failed to send message'})
SendFailed(i) ==
    /\ sends' = [sends EXCEPT ![i].pc = "failed", ![i].err = @ + 1]
    /\ inbox' = Deliver(inbox, SelfTarget(sends[i].sock),
                        Event("error_failed", sends[i].chat, sends[i].msg, "none", "none"))

\* The check without its participant test.
AccessDeniedChatOnly(c, u) ==
    c \notin DOMAIN chats

\* !chat || !chat.participants.includes(socket.userId)
AccessDenied(c, u) ==
    c \notin DOMAIN chats \/ u \notin chats[c].participants

\* Chat.findById returns (or throws); the participant check follows.
SendLookup(i, fail) ==
    /\ sends[i].pc = "lookup"
    /\ IF fail
       THEN SendFailed(i)
       ELSE IF AccessDenied(sends[i].chat, sock[sends[i].sock].user)
       THEN /\ sends' = [sends EXCEPT ![i].pc = "denied", ![i].err = @ + 1]
            /\ inbox' = Deliver(inbox, SelfTarget(sends[i].sock),
                                Event("error_denied", sends[i].chat, 0, "none", "none"))
       ELSE /\ sends' = [sends EXCEPT ![i].pc = "save"]
            /\ UNCHANGED inbox
    /\ UNCHANGED <<users, chats, messages, sock, callLog, nSends, nSignals, unanswered, limit, creates, memVars>>

\* new Message({chatId, sender, text, messageType}): status defaults to 'sent'.
NewMessage(c, u) ==
    [chatId |-> c, sender |-> u, status |-> "sent"]

\* message.save() inserts the message (or throws).
SendSave(i, fail) ==
    /\ sends[i].pc = "save"
    /\ IF fail
       THEN /\ SendFailed(i)
            /\ UNCHANGED messages
       ELSE /\ messages' = Append(messages, NewMessage(sends[i].chat, sock[sends[i].sock].user))
            /\ sends' = [sends EXCEPT ![i].pc = "populate", ![i].msg = Len(messages) + 1]
            /\ UNCHANGED inbox
    /\ UNCHANGED <<users, chats, sock, callLog, nSends, nSignals, unanswered, limit, creates, memVars>>

\* message.populate('sender', 'username') returns (or throws).
SendPopulate(i, fail) ==
    /\ sends[i].pc = "populate"
    /\ IF fail
       THEN SendFailed(i)
       ELSE /\ sends' = [sends EXCEPT ![i].pc = "chatsave"]
            /\ UNCHANGED inbox
    /\ UNCHANGED <<users, chats, messages, sock, callLog, nSends, nSignals, unanswered, limit, creates, memVars>>

\* formattedMessage.status: the literal of line 564.
FormattedStatus(stored) ==
    "delivered"

\* chat.lastMessage = {text, sender}; chat.save() writes the modified path
\* of the document read by the lookup (the message's number stands for its
\* text). Then the message is formatted and
\* emitted: new_message to the room, message_sent to the sender, and the
\* status update is scheduled.
SendChatSave(i, fail) ==
    /\ sends[i].pc = "chatsave"
    /\ IF fail
       THEN /\ SendFailed(i)
            /\ UNCHANGED chats
       ELSE LET s == sends[i].sock
                c == sends[i].chat
                m == sends[i].msg
                u == sock[s].user
                st == FormattedStatus(messages[m].status)
                toRoom == Deliver(inbox, RoomTargets(c, s), Event("new_message", c, m, u, st))
            IN  /\ chats' = [chats EXCEPT ![c].lastMessage = [text |-> m, sender |-> u]]
                /\ inbox' = Deliver(toRoom, SelfTarget(s), Event("message_sent", c, m, u, st))
                /\ sends' = [sends EXCEPT ![i].pc = "timer", ![i].ok = @ + 1]
    /\ UNCHANGED <<users, messages, sock, callLog, nSends, nSignals, unanswered, limit, creates, memVars>>

\* The write of Message.findByIdAndUpdate(message._id, {status: 'delivered'}).
TimerStatus(stored) ==
    "delivered"

\* The setTimeout callback of lines 575-581 runs: the status update, then the
\* message_status_updated broadcast to the room. A rejected update leaves the
\* callback's promise rejected with nothing to handle it.
StatusTimer(i, fail) ==
    /\ sends[i].pc = "timer"
    /\ IF fail
       THEN /\ sends' = [sends EXCEPT ![i].pc = "rejected"]
            /\ UNCHANGED <<messages, inbox>>
       ELSE LET m == sends[i].msg
                st == TimerStatus(messages[m].status)
            IN  /\ messages' = [messages EXCEPT ![m].status = st]
                /\ inbox' = Deliver(inbox, RoomTargets(sends[i].chat, sends[i].sock),
                                    Event("message_status_updated", sends[i].chat, m, "none", st))
                /\ sends' = [sends EXCEPT ![i].pc = "done"]
    /\ UNCHANGED <<users, chats, sock, callLog, nSends, nSignals, unanswered, limit, creates, memVars>>

\* ------------------------------------------------ typing and call relays

\* An event of one of the relays arrives on connection s: with the listeners
\* registered, the listener emits `type` to the room named by the event (a
\* call signal is also noted in the chat's call log); before that the event
\* finds no listener.
Relay(s, c, type, isCall) ==
    /\ nSignals < limit.signals
    /\ nSignals' = nSignals + 1
    /\ IF sock[s].pc = "ready"
       THEN /\ inbox' = Deliver(inbox, RoomTargets(c, s),
                                Event(type, c, 0, sock[s].user, "none"))
            /\ callLog' = IF isCall THEN [callLog EXCEPT ![c] = Append(@, type)] ELSE callLog
            /\ UNCHANGED unanswered
       ELSE /\ unanswered' = unanswered + 1
            /\ UNCHANGED <<inbox, callLog>>
    /\ UNCHANGED <<users, chats, messages, sock, sends, nSends, limit, creates, memVars>>

\* socket.on('typing_start'): socket.to(chatId).emit('user_typing')
TypingStart(s, c) ==
    /\ sock[s].open
    /\ Relay(s, c, "user_typing", FALSE)

\* socket.on('typing_stop'): socket.to(chatId).emit('user_stop_typing')
TypingStop(s, c) ==
    /\ sock[s].open
    /\ Relay(s, c, "user_stop_typing", FALSE)

\* socket.on('start_call'): socket.to(chatId).emit('incoming_call')
StartCall(s, c) ==
    /\ sock[s].open
    /\ Relay(s, c, "incoming_call", TRUE)

\* socket.on('accept_call'): socket.to(chatId).emit('call_accepted')
AcceptCall(s, c) ==
    /\ sock[s].open
    /\ Relay(s, c, "call_accepted", TRUE)

\* socket.on('decline_call'): socket.to(chatId).emit('call_declined')
DeclineCall(s, c) ==
    /\ sock[s].open
    /\ Relay(s, c, "call_declined", TRUE)

\* socket.on('end_call'): socket.to(chatId).emit('call_ended')
EndCall(s, c) ==
    /\ sock[s].open
    /\ Relay(s, c, "call_ended", TRUE)

\* ------------------------------------------------------------ mark as read

\* A mark_read event arrives on connection s. The connection handler
\* registers no listener for it (lines 526-648 register send_message, the
\* typing and call relays and disconnect), so the event is discarded.
MarkRead(s, c) ==
    /\ sock[s].open
    /\ nSignals < limit.signals
    /\ nSignals' = nSignals + 1
    /\ unanswered' = unanswered + 1
    /\ UNCHANGED <<users, chats, messages, sock, inbox, sends, callLog, nSends, limit, creates, memVars>>

\* The messages a mark-as-read intent of user u for chat c applies to.
Unread(u, c) ==
    {m \in DOMAIN messages :
        messages[m].chatId = c /\ messages[m].sender # u /\ messages[m].status # "read"}

\* The storage collaborator records a mark-as-read intent of member u for
\* chat c (specification 4.3): every message of c not authored by u that is
\* not yet read becomes read. No code of server.js writes this status.
ExternalMarkRead(u, c) ==
    /\ c \in DOMAIN chats
    /\ u \in chats[c].participants
    /\ Unread(u, c) # {}
    /\ messages' = [m \in DOMAIN messages |->
                      IF m \in Unread(u, c) THEN [messages[m] EXCEPT !.status = "read"]
                      ELSE messages[m]]
    /\ UNCHANGED <<users, chats, sock, inbox, sends, callLog, nSends, nSignals, unanswered, limit, creates, memVars>>

\* ------------------------------------------------------ in-memory server

\* A map that never finds a key.
MemIndexNone(email) ==
    {}

\* The positions of the entries of `users` that satisfy a test, and the
\* first of them (Array.prototype.find over users.values()), 0 if none.
MemIndex(email) ==
    {k \in DOMAIN memUsers : memUsers[k].email = email}

First(ks) ==
    IF ks = {} THEN 0 ELSE CHOOSE k \in ks : \A j \in ks : k <= j

\* socket.emit / io.to(id).emit: the event reaches socket s if it is connected.
MemEmit(inb, s, type, about) ==
    IF s \in MemSocketIds /\ memSock[s] = "open"
    THEN [inb EXCEPT ![s] = Append(@, [type |-> type, about |-> about])]
    ELSE inb

\* A client connects: io.on('connection') registers the socket's listeners.
MemConnect ==
    /\ \E s \in MemSocketIds :
          /\ memSock[s] = "none"
          /\ \A t \in MemSocketIds : memSock[t] = "none" => s <= t
          /\ memSock' = [memSock EXCEPT ![s] = "open"]
    /\ UNCHANGED <<memUsers, memMessages, memInbox, nMemEvents>>
    /\ UNCHANGED <<users, chats, messages, sock, inbox, sends, callLog, nSends, nSignals, unanswered, limit, creates>>

\* A client event arrives on a connected socket.
MemEvent(s) ==
    /\ memSock[s] = "open"
    /\ nMemEvents < MemEvents
    /\ nMemEvents' = nMemEvents + 1
    /\ UNCHANGED memSock
    /\ UNCHANGED <<users, chats, messages, sock, inbox, sends, callLog, nSends, nSignals, unanswered, limit, creates>>

\* 'user' + (users.size + 1)
NewUserId ==
    CASE Len(memUsers) = 2 -> "user3"
      [] Len(memUsers) = 3 -> "user4"
      [] OTHER -> "user5"

\* socket.on('register')
Register(s, email, password) ==
    /\ MemEvent(s)
    /\ IF MemIndex(email) # {}
       THEN /\ memInbox' = MemEmit(memInbox, s, "registerError", email)
            /\ UNCHANGED memUsers
       ELSE /\ memUsers' = Append(memUsers,
                   [id |-> NewUserId, email |-> email, password |-> password,
                    online |-> TRUE, socketId |-> s])
            /\ memInbox' = MemEmit(memInbox, s, "registered", email)
    /\ UNCHANGED memMessages

\* socket.on('login')
Login(s, email, password) ==
    /\ MemEvent(s)
    /\ LET k == First(MemIndex(email))
       IN  IF k # 0 /\ memUsers[k].password = password
           THEN /\ memUsers' = [memUsers EXCEPT ![k].online = TRUE, ![k].socketId = s]
                /\ memInbox' = MemEmit(memInbox, s, "loggedIn", email)
           ELSE /\ memInbox' = MemEmit(memInbox, s, "loginError", email)
                /\ UNCHANGED memUsers
    /\ UNCHANGED memMessages

\* socket.on('searchContacts'): the query is an email address, matched
\* against the emails (no username of the run contains one).
SearchContacts(s, query) ==
    /\ MemEvent(s)
    /\ memInbox' = MemEmit(memInbox, s, "contactResults", query)
    /\ UNCHANGED <<memUsers, memMessages>>

\* socket.on('sendMessage'): the message is stored, emitted to the socket id
\* recorded for the recipient if the recipient is marked online, and
\* acknowledged to the sender.
MemSendMessage(s, chatId, recipientId) ==
    /\ MemEvent(s)
    /\ memMessages' = [memMessages EXCEPT ![chatId] =
                          Append(@, [from |-> s, recipientId |-> recipientId])]
    /\ LET k == First({j \in DOMAIN memUsers : memUsers[j].id = recipientId})
           toRecipient == IF k # 0 /\ memUsers[k].online
                          THEN MemEmit(memInbox, memUsers[k].socketId, "newMessage", recipientId)
                          ELSE memInbox
       IN  memInbox' = [toRecipient EXCEPT ![s] = Append(@, [type |-> "messageSent", about |-> recipientId])]
    /\ UNCHANGED memUsers

\* The listener looking for any user that is online.
AnyOnline(s) ==
    {j \in DOMAIN memUsers : memUsers[j].online}

\* u => u.socketId === socket.id
OnSocket(s) ==
    {j \in DOMAIN memUsers : memUsers[j].socketId = s}

\* socket.on('disconnect'): the first user whose socketId is the closing
\* socket's is marked offline.
MemDisconnect(s) ==
    /\ memSock[s] = "open"
    /\ memSock' = [memSock EXCEPT ![s] = "closed"]
    /\ LET k == First(OnSocket(s))
       IN  memUsers' = IF k # 0 THEN [memUsers EXCEPT ![k].online = FALSE] ELSE memUsers
    /\ UNCHANGED <<memMessages, memInbox, nMemEvents>>
    /\ UNCHANGED <<users, chats, messages, sock, inbox, sends, callLog, nSends, nSignals, unanswered, limit, creates>>

MemNext ==
    \/ MemConnect
    \/ \E s \in MemSocketIds, email \in MemEmails, password \in MemPasswords : Register(s, email, password)
    \/ \E s \in MemSocketIds, email \in MemEmails, password \in MemPasswords : Login(s, email, password)
    \/ \E s \in MemSocketIds, query \in MemEmails : SearchContacts(s, query)
    \/ \E s \in MemSocketIds, c \in MemChatIds, r \in MemUserIds : MemSendMessage(s, c, r)
    \/ \E s \in MemSocketIds : MemDisconnect(s)

\* ---------------------------------------------------------------- Next
ConnNext ==
    \/ \E u \in Users : Connect(u)
    \/ \E s \in Sockets : ConnSetOnline(s)
    \/ \E s \in Sockets : ConnJoinRooms(s)
    \/ \E s \in Sockets : Disconnect(s)
    \/ \E s \in Sockets : DiscUpdate(s)

SendNext ==
    \/ \E s \in Sockets, c \in ChatIds : SendMessage(s, c)
    \/ \E i \in DOMAIN sends, fail \in BOOLEAN : SendLookup(i, fail)
    \/ \E i \in DOMAIN sends, fail \in BOOLEAN : SendSave(i, fail)
    \/ \E i \in DOMAIN sends, fail \in BOOLEAN : SendPopulate(i, fail)
    \/ \E i \in DOMAIN sends, fail \in BOOLEAN : SendChatSave(i, fail)
    \/ \E i \in DOMAIN sends, fail \in BOOLEAN : StatusTimer(i, fail)

CreateNext ==
    \/ \E u \in Users, others \in SUBSET Users, isGroup \in BOOLEAN : CreateChat(u, others, isGroup)
    \/ \E i \in DOMAIN creates, fail \in BOOLEAN : CreateFind(i, fail)
    \/ \E i \in DOMAIN creates, fail \in BOOLEAN : CreateSave(i, fail)

TypingNext ==
    \/ \E s \in Sockets, c \in ChatIds : TypingStart(s, c)
    \/ \E s \in Sockets, c \in ChatIds : TypingStop(s, c)

CallNext ==
    \/ \E s \in Sockets, c \in ChatIds : StartCall(s, c)
    \/ \E s \in Sockets, c \in ChatIds : AcceptCall(s, c)
    \/ \E s \in Sockets, c \in ChatIds : DeclineCall(s, c)
    \/ \E s \in Sockets, c \in ChatIds : EndCall(s, c)

Next ==
    \/ ConnNext
    \/ \E u \in Users : HttpLogin(u)
    \/ SendNext
    \/ TypingNext
    \/ CallNext
    \/ \E s \in Sockets, c \in ChatIds : MarkRead(s, c)
    \/ CreateNext

Spec == Init /\ [][Next]_vars

\* The handshake with every kind of token, the connection lifecycle and the
\* typing relays.
InitAuth == InitState /\ limit = Limit(AuthSockets, 0, AuthSignals)
AuthNext ==
    \/ \E tok \in Tokens : Handshake(tok)
    \/ \E s \in Sockets : ConnSetOnline(s)
    \/ \E s \in Sockets : ConnJoinRooms(s)
    \/ \E s \in Sockets : Disconnect(s)
    \/ \E s \in Sockets : DiscUpdate(s)
    \/ TypingNext
SpecAuth == InitAuth /\ [][AuthNext]_vars

\* The connection lifecycle with the HTTP login route.
InitConn == InitState /\ limit = Limit(ConnSockets, 0, 0)
SpecConn == InitConn /\ [][ConnNext \/ \E u \in Users : HttpLogin(u)]_vars

\* The connection lifecycle with the send_message pipeline.
InitMsg == InitState /\ limit = Limit(MsgSockets, MsgSends, 0)
SpecMsg == InitMsg /\ [][ConnNext \/ SendNext]_vars

\* Three connections that stay open, with the send_message pipeline.
InitFan == InitState /\ limit = Limit(FanSockets, FanSends, 0)
FanNext ==
    \/ \E u \in Users : Connect(u)
    \/ \E s \in Sockets : ConnSetOnline(s)
    \/ \E s \in Sockets : ConnJoinRooms(s)
    \/ SendNext
SpecFan == InitFan /\ [][FanNext]_vars

\* Connections that stay open, with two send_message events in flight.
InitOrder == InitState /\ limit = Limit(OrderSockets, OrderSends, 0)
SpecOrder == InitOrder /\ [][FanNext]_vars

\* Connections that stay open, chats created while they are, and the
\* send_message pipeline.
InitJoin == InitState /\ limit = [Limit(JoinSockets, JoinSends, 0) EXCEPT !.creates = JoinCreates]
SpecJoin == InitJoin /\ [][FanNext \/ CreateNext]_vars

\* Concurrent POST /api/chats requests.
InitCreate == InitState /\ limit = [Limit(0, 0, 0) EXCEPT !.creates = CreateRequests]
SpecCreate == InitCreate /\ [][CreateNext]_vars

\* The in-memory server.
InitMem == InitState /\ limit = Limit(0, 0, 0)
SpecMem == InitMem /\ [][MemNext]_vars

\* The connection lifecycle with the call relays.
InitCall == InitState /\ limit = Limit(CallSockets, 0, CallSignals)
SpecCall == InitCall /\ [][ConnNext \/ CallNext]_vars

\* The connection lifecycle with the typing relays.
InitType == InitState /\ limit = Limit(TypeSockets, 0, TypeSignals)
SpecType == InitType /\ [][ConnNext \/ TypingNext]_vars

\* The send_message pipeline with mark_read events and the storage
\* collaborator's mark-as-read writes.
InitRead == InitState /\ limit = Limit(ReadSockets, ReadSends, ReadSignals)
ReadNext ==
    \/ ConnNext
    \/ SendNext
    \/ \E s \in Sockets, c \in ChatIds : MarkRead(s, c)
    \/ \E u \in Users, c \in ChatIds : ExternalMarkRead(u, c)
SpecRead == InitRead /\ [][ReadNext]_vars

\* ================================================================ claims

\* The connections of user u whose transport is open.
LiveSockets(u) ==
    {s \in Sockets : sock[s].user = u /\ sock[s].open}

\* The connections of user u that are open and have finished the connect
\* sequence of lines 510-523.
ReadySockets(u) ==
    {s \in LiveSockets(u) : sock[s].pc = "ready"}

\* C1. At most one live connection per user: once a second connect of user
\* U has completed, the earlier connection is closed, so no user ever has two
\* open connections that both completed their connect, and the presence
\* record names the single live one.
C1_AtMostOneLiveConnection ==
    \A u \in Users :
        /\ Cardinality(ReadySockets(u)) <= 1
        /\ \A s \in ReadySockets(u) : LiveSockets(u) = {s} => users[u].socketId = s

\* A user recorded online has a socketId that refers to an open connection
\* of that user.
OnlineHasLiveHandle ==
    \A u \in Users :
        users[u].online =>
            /\ users[u].socketId # 0
            /\ sock[users[u].socketId].open
            /\ sock[users[u].socketId].user = u

\* The step that processes a connection's close leaves its user offline with
\* the handle cleared and lastSeen stamped.
CloseStampsOffline ==
    \A s \in Sockets :
        DiscUpdate(s) =>
            /\ ~users'[sock[s].user].online
            /\ users'[sock[s].user].socketId = 0
            /\ users'[sock[s].user].lastSeen = s

\* C7. Presence invariant: in every reachable state a user recorded online
\* has a socketId that refers to a live connection, and once a connection's
\* close has been processed its user is offline with the handle cleared and
\* lastSeen stamped.
C7_PresenceInvariant ==
    []OnlineHasLiveHandle /\ [][CloseStampsOffline]_vars

\* The events that carry a message: the fan-out, the sender's
\* acknowledgment and the status update.
MessageEvents == {"new_message", "message_sent", "message_status_updated"}

\* The sender of send i is no participant of the chat the event names, or
\* that chat is not stored.
NonMemberSend(i) ==
    LET c == sends[i].chat
        u == sock[sends[i].sock].user
    IN  ~(c \in DOMAIN chats /\ u \in chats[c].participants)

CountOf(seq, type, m) ==
    Cardinality({k \in DOMAIN seq : seq[k].type = type /\ seq[k].msg = m})

\* C3. Fan-out completeness: when a send by S succeeds in a chat all of whose
\* members are recorded online, the emitting step leaves exactly one
\* new_message for that message with the connection of every other member,
\* none with any connection of S, and exactly one message_sent with S's
\* sending connection.
C3_FanOutComplete ==
    [][\A i \in DOMAIN sends :
          LET c == sends[i].chat
              s == sends[i].sock
              u == sock[s].user
              m == sends[i].msg
          IN  (SendChatSave(i, FALSE) /\ sock[s].open
                 /\ \A v \in chats[c].participants : users[v].online)
              => /\ \A v \in chats[c].participants \ {u} :
                      /\ users[v].socketId # 0
                      /\ CountOf(inbox'[users[v].socketId], "new_message", m) = 1
                 /\ \A t \in Sockets :
                      sock[t].user = u => CountOf(inbox'[t], "new_message", m) = 0
                 /\ CountOf(inbox'[s], "message_sent", m) = 1
      ]_vars

\* Some member of chat c other than u is recorded online or has an open
\* connection.
RecipientOnline(c, u) ==
    \E v \in chats[c].participants \ {u} : users[v].online \/ LiveSockets(v) # {}

\* C5. Offline durability: a send that succeeds while no other member of the
\* chat is online leaves the message stored with status sent, reports status
\* sent to the sender and delivers nothing to anyone else; and the delayed
\* update, run while still no other member is online, changes neither the
\* stored status nor any inbox.
C5_OfflineDurability ==
    [][\A i \in DOMAIN sends :
          LET c == sends[i].chat
              s == sends[i].sock
              u == sock[s].user
              m == sends[i].msg
          IN  /\ (SendChatSave(i, FALSE) /\ sock[s].open /\ ~RecipientOnline(c, u))
                 => /\ messages'[m].status = "sent"
                    /\ \A t \in Sockets \ {s} : inbox'[t] = inbox[t]
                    /\ inbox'[s] = Append(inbox[s], Event("message_sent", c, m, u, "sent"))
              /\ (StatusTimer(i, FALSE) /\ ~RecipientOnline(c, u))
                 => /\ messages'[m].status = "sent"
                    /\ inbox' = inbox
      ]_vars

\* The handler of send i has emitted its acknowledgment and returned.
FinishedSend(i) ==
    sends[i].pc \in {"denied", "failed", "timer", "done", "rejected"}

\* C10. Exactly one outcome per event: no inbound event is left without a
\* listener; a send_message handler emits at most one acknowledgment to its
\* connection, a finished one exactly one (success or error, never both), and
\* no failure leaves the handler other than as an error acknowledgment.

C10_ExactlyOneOutcome ==
    /\ unanswered = 0
    /\ \A i \in DOMAIN sends :
          /\ sends[i].ok + sends[i].err <= 1
          /\ FinishedSend(i) => sends[i].ok + sends[i].err = 1
          /\ sends[i].pc # "rejected"

\* The Call Session of the specification (4.4), as the sequence of call
\* signals the server relayed for a chat would drive it: start creates a
\* ringing session unless one is active, accept / decline need ringing, end
\* needs an active session; declined and ended sessions are discarded.
RECURSIVE CallState(_)
CallState(log) ==
    IF log = << >> THEN "none"
    ELSE LET prev == CallState(SubSeq(log, 1, Len(log) - 1))
             e == log[Len(log)]
         IN  CASE e = "incoming_call" ->
                    IF prev \in {"none", "declined", "ended"} THEN "ringing" ELSE prev
               [] e = "call_accepted" -> IF prev = "ringing" THEN "accepted" ELSE prev
               [] e = "call_declined" -> IF prev = "ringing" THEN "declined" ELSE prev
               [] e = "call_ended" ->
                    IF prev \in {"ringing", "accepted"} THEN "ended" ELSE prev

\* C8. Call start exclusivity: a start_call handled for a chat whose session
\* is ringing forwards nothing to any other connection and notifies the
\* sender.
C8_CallStartExclusive ==
    [][\A s \in Sockets, c \in ChatIds :
          (StartCall(s, c) /\ sock[s].pc = "ready" /\ CallState(callLog[c]) = "ringing")
          => /\ \A t \in Sockets \ {s} : inbox'[t] = inbox[t]
             /\ Len(inbox'[s]) = Len(inbox[s]) + 1
      ]_vars

\* C9. Call signaling order: an accept_call or decline_call for a chat whose
\* session is not ringing (none, accepted, declined or ended) is ignored:
\* nothing is forwarded to any connection.
C9_CallSignalOrder ==
    [][\A s \in Sockets, c \in ChatIds :
          ((AcceptCall(s, c) \/ DeclineCall(s, c)) /\ CallState(callLog[c]) # "ringing")
          => inbox' = inbox
      ]_vars

\* The place of a status in the lifecycle sent -> delivered -> read.
Rank(status) ==
    CASE status = "sent" -> 1
      [] status = "delivered" -> 2
      [] status = "read" -> 3

\* C4. Monotonic status: no step lowers the stored status of a message; in
\* particular a delivered update of a read message leaves it read.
C4_MonotonicStatus ==
    [][\A m \in DOMAIN messages :
          Rank(messages'[m].status) >= Rank(messages[m].status)
      ]_vars

\* C6. Mark-as-read: the step that handles mark_read{chatId: C} from member
\* U2 on a connection with its listeners registered turns every message of C
\* not authored by U2 and not yet read into read.
C6_MarkReadApplies ==
    [][\A s \in Sockets, c \in DOMAIN chats :
          (MarkRead(s, c) /\ sock[s].pc = "ready" /\ sock[s].user \in chats[c].participants)
          => \A m \in Unread(sock[s].user, c) : messages'[m].status = "read"
      ]_vars

\* C11. Disconnect handling: the closure of an authenticated connection at
\* any time, also while its connect sequence still awaits the presence update
\* or the membership load, gets disconnect handling: once the connection's
\* handlers have nothing left to run, the close has been processed, the user
\* has last-seen stamped and, with no other connection, is offline.
C11_DisconnectHandled ==
    \A s \in Sockets :
        (sock[s].pc = "ready" /\ ~sock[s].open /\ sock[s].disc # "pending")
        => /\ sock[s].disc = "done"
           /\ users[sock[s].user].lastSeen # 0

\* C12. Finalized acknowledgment: the status carried by the message_sent and
\* new_message events of a send equals the stored status of the message when
\* they are emitted.
C12_AckCarriesStoredStatus ==
    [][\A i \in DOMAIN sends :
          SendChatSave(i, FALSE)
          => \A t \in Sockets : \A k \in DOMAIN inbox'[t] :
                k > Len(inbox[t]) => inbox'[t][k].status = messages'[sends[i].msg].status
      ]_vars

\* The token fails verification or names a user that does not exist.
BadToken(tok) ==
    ~tok.signed \/ tok.userId \notin Users

\* A rejected connection is closed, in no room, has received no event, runs
\* no handler and is no user's handle; every connection whose handler runs
\* belongs to a stored user.
RejectedInert ==
    \A s \in Sockets :
        /\ sock[s].pc = "rejected"
           => /\ ~sock[s].open
              /\ sock[s].rooms = {}
              /\ sock[s].disc = "idle"
              /\ inbox[s] = << >>
              /\ \A i \in DOMAIN sends : sends[i].sock # s
              /\ \A u \in Users : users[u].socketId # s
        /\ sock[s].pc \in {"connected", "online", "ready"} => sock[s].user \in Users

\* The handshake with a bad token changes no stored or delivered state and
\* leaves the allotted socket rejected.
BadTokenRejected ==
    \A tok \in Tokens :
        (Handshake(tok) /\ BadToken(tok))
        => /\ sock'[NextSocket].pc = "rejected"
           /\ ~sock'[NextSocket].open
           /\ \A s \in Sockets \ {NextSocket} : sock'[s] = sock[s]
           /\ UNCHANGED <<users, chats, messages, inbox, sends, callLog, unanswered>>

\* C13. Authentication rejection: a connection whose credential fails
\* verification, or whose token names a user that does not exist, is
\* rejected: the connection handler never runs for it, no presence record
\* changes, no room is joined and none of its events are processed.
C13_AuthRejection ==
    []RejectedInert /\ [][BadTokenRejected]_vars

\* C13 witness: a handshake was rejected and a later one of a stored user
\* completed its connect sequence, with that user online on it.
C13_Witness ==
    \E s, t \in Sockets :
        /\ s < t
        /\ sock[s].pc = "rejected"
        /\ sock[t].pc = "ready"
        /\ users[sock[t].user].socketId = t

\* C14. Typing relay: the step in which a listener handles a typing_start or
\* typing_stop of member S for chat C appends the forwarded event to the
\* inbox of the connection of every other member of C that is recorded
\* online (so each recipient gets a sender's events in the order they were
\* relayed), delivers nothing to a connection of S and changes no stored
\* state.
C14_TypingRelay ==
    [][\A s \in Sockets, c \in DOMAIN chats :
          LET u == sock[s].user
          IN  (u \in chats[c].participants /\ sock[s].pc = "ready"
                 /\ (TypingStart(s, c) \/ TypingStop(s, c)))
              => /\ \A t \in Sockets :
                      (sock[t].open /\ sock[t].user \in chats[c].participants \ {u}
                         /\ users[sock[t].user].online /\ users[sock[t].user].socketId = t)
                      => /\ Len(inbox'[t]) = Len(inbox[t]) + 1
                         /\ SubSeq(inbox'[t], 1, Len(inbox[t])) = inbox[t]
                         /\ inbox'[t][Len(inbox'[t])].type \in {"user_typing", "user_stop_typing"}
                         /\ inbox'[t][Len(inbox'[t])].from = u
                 /\ \A t \in Sockets : sock[t].user = u => inbox'[t] = inbox[t]
                 /\ UNCHANGED <<users, chats, messages>>
      ]_vars

\* C15. Presence linearization under reconnect: when user U has connected on
\* c1 and then on c2 and no other connection, c1's disconnect has been
\* processed, and c2 has finished its connect sequence and is still live,
\* U is recorded online with handle c2.
C15_ReconnectKeepsPresence ==
    \A c1, c2 \in Sockets :
        (/\ c1 < c2
         /\ sock[c1].user = sock[c2].user
         /\ \A t \in Sockets \ {c1, c2} : sock[t].user # sock[c1].user
         /\ sock[c1].disc = "done"
         /\ sock[c2].pc = "ready"
         /\ sock[c2].open)
        => /\ users[sock[c2].user].online
           /\ users[sock[c2].user].socketId = c2

\* The positions of the new_message events for message m in a sequence.
NewMessageAt(seq, m) ==
    {k \in DOMAIN seq : seq[k].type = "new_message" /\ seq[k].msg = m}

\* C16. Per-sender ordering: of two send_message events received in that
\* order from the same connection for the same chat, the first is persisted
\* before the second (when both are), and no connection receives the
\* new_message of the second before that of the first.
C16_PerSenderOrder ==
    \A i, j \in DOMAIN sends :
        (i < j /\ sends[i].sock = sends[j].sock /\ sends[i].chat = sends[j].chat
           /\ sends[i].msg # 0 /\ sends[j].msg # 0)
        => /\ sends[i].msg < sends[j].msg
           /\ \A t \in Sockets :
                 \A k1 \in NewMessageAt(inbox[t], sends[i].msg),
                    k2 \in NewMessageAt(inbox[t], sends[j].msg) : k1 < k2

\* The messages stored for chat c.
ChatMessages(c) ==
    {m \in DOMAIN messages : messages[m].chatId = c}

\* C17. Last-message summary: once every send_message handler for chat C has
\* completed, none of them with a storage failure, C's stored lastMessage is
\* the text and sender of the most recently persisted message of C.
C17_LastMessageIsLatest ==
    \A c \in DOMAIN chats :
        (/\ ChatMessages(c) # {}
         /\ \A i \in DOMAIN sends :
               sends[i].chat = c => FinishedSend(i) /\ sends[i].pc # "failed")
        => LET last == CHOOSE m \in ChatMessages(c) : \A n \in ChatMessages(c) : n <= m
           IN  chats[c].lastMessage = [text |-> last, sender |-> messages[last].sender]

\* C18. Routing reaches all currently-online members: the step that emits a
\* successful send to chat C leaves exactly one new_message for it with every
\* open connection of another member of C that has completed its connect
\* sequence, also when that member became a participant of C (through
\* POST /api/chats) after connecting.
C18_RoutingReachesMembers ==
    [][\A i \in DOMAIN sends :
          LET c == sends[i].chat
              s == sends[i].sock
              u == sock[s].user
              m == sends[i].msg
          IN  (SendChatSave(i, FALSE) /\ sock[s].open)
              => \A t \in Sockets :
                    (sock[t].open /\ sock[t].pc = "ready"
                       /\ sock[t].user \in chats[c].participants \ {u})
                    => CountOf(inbox'[t], "new_message", m) = 1
      ]_vars

\* The step handles one of the ephemeral signals from connection s for chat c.
SignalStep(s, c) ==
    \/ TypingStart(s, c)
    \/ TypingStop(s, c)
    \/ StartCall(s, c)
    \/ AcceptCall(s, c)
    \/ DeclineCall(s, c)
    \/ EndCall(s, c)

\* C19. Signal scoping: an ephemeral signal naming chat C whose sender is
\* not a participant of C is delivered to no connection.
C19_SignalScoping ==
    [][\A s \in Sockets, c \in DOMAIN chats :
          (SignalStep(s, c) /\ sock[s].user \notin chats[c].participants)
          => inbox' = inbox
      ]_vars

\* C20. No transmit to a stale handle (in-memory server): every user with
\* online = true has a socketId that identifies a currently open connection.
C20_OnlineHandleOpen ==
    \A k \in DOMAIN memUsers :
        memUsers[k].online =>
            /\ memUsers[k].socketId \in MemSocketIds
            /\ memSock[memUsers[k].socketId] = "open"

\* Socket s holds the answer to a successful login with this email.
LoggedInOn(s, email) ==
    \E k \in DOMAIN memInbox[s] :
        memInbox[s][k] = [type |-> "loggedIn", about |-> email]

\* A disconnect leaves every user recorded on another socket as it was, and
\* a user goes offline only in the disconnect of the socket recorded for it.
SupersededUntouched ==
    /\ \A s \in MemSocketIds :
          MemDisconnect(s) =>
              \A k \in DOMAIN memUsers :
                  memUsers[k].socketId # s => memUsers'[k] = memUsers[k]
    /\ \A k \in DOMAIN memUsers :
          (memUsers[k].online /\ ~memUsers'[k].online)
          => MemDisconnect(memUsers[k].socketId)

\* C21. Superseded-socket disconnect (in-memory server): when user U logged
\* in on socket s1 and later on socket s2, the disconnect of s1 leaves U
\* online with socketId s2; U is marked offline only by the disconnect of the
\* socket currently recorded for U.
C21_SupersededDisconnect ==
    [][SupersededUntouched]_vars

\* C21 witness: a user logged in on socket 1 and then on socket 2, socket 1
\* has disconnected and the user is online with socketId 2.
C21_Witness ==
    \E k \in DOMAIN memUsers :
        /\ LoggedInOn(1, memUsers[k].email)
        /\ LoggedInOn(2, memUsers[k].email)
        /\ memSock[1] = "closed"
        /\ memSock[2] = "open"
        /\ memUsers[k].online
        /\ memUsers[k].socketId = 2

\* The stored non-group chats whose participants are exactly the given pair.
PrivateChats(parts) ==
    {c \in DOMAIN chats : ~chats[c].isGroup /\ chats[c].participants = parts}

\* C22. Private chat uniqueness: a finished non-group request was answered
\* with a stored non-group chat of its two participants, and at most one
\* non-group chat exists for any pair of users, whatever the order and
\* interleaving of the create-chat requests.
C22_PrivateChatUnique ==
    /\ \A i \in DOMAIN creates :
          (creates[i].pc = "done" /\ ~creates[i].isGroup)
          => creates[i].chat \in PrivateChats(creates[i].participants)
    /\ \A x, y \in Users :
          x # y => Cardinality(PrivateChats({x, y})) <= 1

\* No two user records share an email or an id.
UniqueUsers ==
    \A j, k \in DOMAIN memUsers :
        j # k => /\ memUsers[j].email # memUsers[k].email
                 /\ memUsers[j].id # memUsers[k].id

\* The step answers socket s with one event of the given type and changes
\* nothing else of the server's state.
OnlyAnswers(s, type, email) ==
    /\ memInbox' = [memInbox EXCEPT ![s] = Append(@, [type |-> type, about |-> email])]
    /\ UNCHANGED <<memUsers, memMessages, memSock>>

\* A register for a stored email answers registerError, a login with an
\* unknown email or a wrong password answers loginError, and neither
\* changes anything else.
FailuresChangeNothing ==
    \A s \in MemSocketIds, email \in MemEmails, password \in MemPasswords :
        /\ (Register(s, email, password)
              /\ \E k \in DOMAIN memUsers : memUsers[k].email = email)
           => OnlyAnswers(s, "registerError", email)
        /\ (Login(s, email, password)
              /\ ~\E k \in DOMAIN memUsers :
                    memUsers[k].email = email /\ memUsers[k].password = password)
           => OnlyAnswers(s, "loginError", email)

\* C23. Registration and login failures leave state unchanged (in-memory
\* server): a register for an email already in the users map emits
\* registerError and changes nothing, a login with an unknown email or a
\* wrong password emits loginError and changes no user record, and in every
\* reachable state no two user records share an email or an id.
C23_FailuresLeaveState ==
    []UniqueUsers /\ [][FailuresChangeNothing]_vars

\* C23 witness: a user was registered, and a register and a login have been
\* refused.
C23_Witness ==
    /\ Len(memUsers) > Len(SeedUsers)
    /\ \E s \in MemSocketIds : \E k \in DOMAIN memInbox[s] : memInbox[s][k].type = "registerError"
    /\ \E s \in MemSocketIds : \E k \in DOMAIN memInbox[s] : memInbox[s][k].type = "loginError"

====
